---- MODULE Spec2Model ----
(***************************************************************************)
(* Model of PhotoService (src/app/shared/services/photo.service.ts) and    *)
(* of the components that call it.                                         *)
(*                                                                         *)
(* A "call" is one subscription to the Observable returned by getPhotos or *)
(* getPhotoById.  The RxJS chain                                           *)
(*     http.get(..).pipe(retryWhen(errors => errors.pipe(mergeMap(..))),   *)
(*                       catchError(this.handleError))                     *)
(* runs synchronously from an HTTP response up to either a delivery to the *)
(* subscriber or the start of a timer, so each response is one action and  *)
(* each timer expiry is one action.                                        *)
(***************************************************************************)
EXTENDS Integers, Sequences, FiniteSets, TLC

\* ---------------------------------------------------------------------
\* Bounds of the model
\* ---------------------------------------------------------------------
\* number of subscriptions that may be alive at the same time
NumCalls == 2

\* ---------------------------------------------------------------------
\* Program constants
\* ---------------------------------------------------------------------
MAX_RETRIES == 4
INITIAL_DELAY == 1000

\* the JavaScript number NaN (no modelled header value parses to a negative)
NaN == -1

Calls == 1..NumCalls
Ops == {"getPhotos", "getPhotoById"}

\* ---------------------------------------------------------------------
\* HttpErrorResponse values handed to the retry logic
\* ---------------------------------------------------------------------
\* error.headers?.get('Retry-After'): null, or a string (sequence of
\* characters).  Characters are decimal digits and one non-digit, "s".
NoHeader == [present |-> FALSE, value |-> <<>>]
Header(str) == [present |-> TRUE, value |-> str]

HttpError(status, retryAfter, isErrorEvent) ==
  [status |-> status, retryAfter |-> retryAfter, isErrorEvent |-> isErrorEvent]

\* status 0: no response; 404: client error; 429: throttled; 503: server error
Statuses == {0, 404, 429, 503}
RetryAfterValues ==
  {NoHeader, Header(<<>>), Header(<<"0">>), Header(<<"2">>),
   Header(<<"1", "0">>), Header(<<"3", "s">>), Header(<<"s">>)}

\* every error the environment may answer with in the single-call
\* specification; without a response (status 0) there are no headers
Errors ==
  {e \in {HttpError(st, ra, ev) :
            st \in Statuses, ra \in RetryAfterValues, ev \in BOOLEAN} :
     e.status = 0 => e.retryAfter = NoHeader}

\* the smaller families used where several calls run together
ConcErrors ==
  {HttpError(503, NoHeader, FALSE), HttpError(429, Header(<<"2">>), FALSE)}
PairErrors ==
  {HttpError(0, NoHeader, FALSE), HttpError(429, NoHeader, FALSE),
   HttpError(429, Header(<<"2">>), FALSE), HttpError(503, NoHeader, FALSE)}

\* ---------------------------------------------------------------------
\* JavaScript helpers used by the retry callbacks
\* ---------------------------------------------------------------------
IsDigit(ch) == ch \in {"0", "1", "2", "3", "4", "5", "6", "7", "8", "9"}

DigitValue(ch) ==
  CASE ch = "0" -> 0 [] ch = "1" -> 1 [] ch = "2" -> 2 [] ch = "3" -> 3
    [] ch = "4" -> 4 [] ch = "5" -> 5 [] ch = "6" -> 6 [] ch = "7" -> 7
    [] ch = "8" -> 8 [] ch = "9" -> 9

\* value of the longest prefix of digits of str, read after acc
RECURSIVE ParseDigits(_, _)
ParseDigits(str, acc) ==
  IF str = <<>> \/ ~IsDigit(Head(str))
    THEN acc
    ELSE ParseDigits(Tail(str), acc * 10 + DigitValue(Head(str)))

\* parseInt(str, 10): the leading digits as a number, NaN when there are none
parseInt(str) ==
  IF str = <<>> \/ ~IsDigit(Head(str)) THEN NaN ELSE ParseDigits(str, 0)

\* n * 1000 in JavaScript arithmetic (NaN * 1000 is NaN)
TimesThousand(n) == IF n = NaN THEN NaN ELSE n * 1000

\* truthiness of a value that is null or a string: only a non-empty string
Truthy(retryAfter) == retryAfter.present /\ retryAfter.value # <<>>

\* outcome of a mergeMap callback: the notifier either throws or starts a timer
Throw == [kind |-> "throw", delay |-> 0]
Timer(delay) == [kind |-> "timer", delay |-> delay]

\* getPhotos giving up at once on a 4xx status other than 429
getPhotosProject_NoRetry4xx(error, idx) ==
  LET retryAttempt == idx + 1 IN
  IF retryAttempt > MAX_RETRIES
       \/ (error.status >= 400 /\ error.status < 500 /\ error.status # 429)
    THEN Throw
    ELSE IF error.status = 429
      THEN LET retryAfter == error.retryAfter
               delay == IF Truthy(retryAfter)
                          THEN TimesThousand(parseInt(retryAfter.value))
                          ELSE INITIAL_DELAY * 2^(retryAttempt - 1)
           IN Timer(delay)
      ELSE Timer(INITIAL_DELAY * 2^(retryAttempt - 1))

\* getPhotos with the cap tested one retry too late
getPhotosProject_LateCap(error, idx) ==
  LET retryAttempt == idx + 1 IN
  IF retryAttempt > MAX_RETRIES + 1
    THEN Throw
    ELSE IF error.status = 429
      THEN LET retryAfter == error.retryAfter
               delay == IF Truthy(retryAfter)
                          THEN TimesThousand(parseInt(retryAfter.value))
                          ELSE INITIAL_DELAY * 2^(retryAttempt - 1)
           IN Timer(delay)
      ELSE Timer(INITIAL_DELAY * 2^(retryAttempt - 1))

\* the mergeMap callback of getPhotos
getPhotosProject(error, idx) ==
  LET retryAttempt == idx + 1 IN
  IF retryAttempt > MAX_RETRIES
    THEN Throw
    ELSE IF error.status = 429
      THEN LET retryAfter == error.retryAfter
               delay == IF Truthy(retryAfter)
                          THEN TimesThousand(parseInt(retryAfter.value))
                          ELSE INITIAL_DELAY * 2^(retryAttempt - 1)
           IN Timer(delay)
      ELSE Timer(INITIAL_DELAY * 2^(retryAttempt - 1))

\* getPhotoById with the exponent taken from the retry number, not the index
getPhotoByIdProject_WrongExponent(error, idx) ==
  IF idx >= MAX_RETRIES
    THEN Throw
    ELSE Timer(INITIAL_DELAY * 2^(idx + 1))

\* the mergeMap callback of getPhotoById
getPhotoByIdProject(error, idx) ==
  IF idx >= MAX_RETRIES
    THEN Throw
    ELSE Timer(INITIAL_DELAY * 2^idx)

Project(o, error, idx) ==
  IF o = "getPhotos" THEN getPhotosProject(error, idx)
                     ELSE getPhotoByIdProject(error, idx)

\* ---------------------------------------------------------------------
\* Notifications delivered to the subscriber
\* ---------------------------------------------------------------------
NextValue == [type |-> "next", ctor |-> "Photos", message |-> ""]
Complete == [type |-> "complete", ctor |-> "", message |-> ""]
ErrorOf(ctor, message) == [type |-> "error", ctor |-> ctor, message |-> message]

\* error.message of an HttpErrorResponse
HttpMessage(error) == "Http failure response: " \o ToString(error.status)
\* error.error.message of an ErrorEvent
EventMessage == "event"

\* the HttpErrorResponse rethrown as it came
handleError_Raw(error) == ErrorOf("HttpErrorResponse", HttpMessage(error))

\* handleError: the message chosen, wrapped in a new Error
handleError(error) ==
  LET errorMessage ==
        IF error.isErrorEvent
          THEN "Client Error: " \o EventMessage
          ELSE IF error.status = 429
            THEN "Rate limit exceeded. Please try again later."
            ELSE IF error.status = 0
              THEN "Network error. Please check your connection."
              ELSE "Server Error: " \o ToString(error.status) \o " - "
                     \o HttpMessage(error)
  IN ErrorOf("Error", errorMessage)

\* ---------------------------------------------------------------------
\* State
\* ---------------------------------------------------------------------
VARIABLES
  op,         \* op[c]: the operation call c was made with
  pc,         \* pc[c]: "idle", "inflight", "waiting", "done", "cancelled"
  request,    \* request[c]: an HTTP request of call c is in flight
  timer,      \* timer[c]: <<>> or <<delay>> of the pending timer(delay)
  index,      \* index[c]: the mergeMap index (errors seen so far)
  attempts,   \* attempts[c]: HTTP requests issued so far
  lastError,  \* lastError[c]: <<>> or <<error>>, the failure being waited
              \* on or the one that ended the call
  hinted,     \* hinted[c]: some failure so far carried a retry-after value
  waits,      \* waits[c]: delays of the timers that have fired
  delivered,  \* delivered[c]: notifications the subscriber has received
  script,     \* outcomes answered so far, by attempt number (paired runs)
  photos,     \* the array a caller hands to clusterPhotos
  clusters,   \* <<>> or <<result>> of the clusterPhotos call on photos
  view,       \* view[c]: what the component stream built on call c has
              \* emitted to its template, and its calls of clusterPhotos
  debug,      \* DebugComponent: its fields, the router url, its timeouts
  grid,       \* ImageGridComponent: its fields, the list shown, the window
  perf        \* PerformanceComponent: its fields and its worker

vars == <<op, pc, request, timer, index, attempts, lastError, hinted, waits,
          delivered, script, photos, clusters, view, debug, grid, perf>>

\* the state of the subscriptions, and the state of a clustering call
retryVars == <<op, pc, request, timer, index, attempts, lastError, hinted,
               waits, delivered, script>>
clusterVars == <<photos, clusters>>
\* the three components that hold state of their own
uiVars == <<debug, grid, perf>>

\* the components before ngOnInit
NoView == [emitted |-> <<>>, clusterCalls |-> 0]
NoDebug == <<>>
NoGrid == <<>>
NoPerf == <<>>
UiIdle ==
  /\ view = [c \in Calls |-> NoView]
  /\ debug = NoDebug
  /\ grid = NoGrid
  /\ perf = NoPerf

Init ==
  /\ op = [c \in Calls |-> "getPhotos"]
  /\ pc = [c \in Calls |-> "idle"]
  /\ request = [c \in Calls |-> FALSE]
  /\ timer = [c \in Calls |-> <<>>]
  /\ index = [c \in Calls |-> 0]
  /\ attempts = [c \in Calls |-> 0]
  /\ lastError = [c \in Calls |-> <<>>]
  /\ hinted = [c \in Calls |-> FALSE]
  /\ waits = [c \in Calls |-> <<>>]
  /\ delivered = [c \in Calls |-> <<>>]
  /\ script = <<>>
  /\ photos = <<>>
  /\ clusters = <<>>
  /\ UiIdle

\* one counter kept on the service and shared by every subscription
NextIndex_Shared(idx, c) == [d \in DOMAIN idx |-> idx[d] + 1]

\* the counter mergeMap passes to its callback belongs to one subscription
NextIndex(idx, c) == [idx EXCEPT ![c] = @ + 1]

\* subscribe: http.get issues the first request
Subscribe(c, o) ==
  /\ pc[c] = "idle"
  /\ op' = [op EXCEPT ![c] = o]
  /\ pc' = [pc EXCEPT ![c] = "inflight"]
  /\ request' = [request EXCEPT ![c] = TRUE]
  /\ attempts' = [attempts EXCEPT ![c] = 1]
  /\ UNCHANGED <<timer, index, lastError, hinted, waits, delivered, script>>
  /\ UNCHANGED clusterVars
  /\ UNCHANGED <<view, uiVars>>

\* the request answers with a body: next, then complete
SucceedStep(c) ==
  /\ request[c]
  /\ request' = [request EXCEPT ![c] = FALSE]
  /\ pc' = [pc EXCEPT ![c] = "done"]
  /\ delivered' = [delivered EXCEPT ![c] = @ \o <<NextValue, Complete>>]
  /\ UNCHANGED <<op, timer, index, attempts, lastError, hinted, waits>>
  /\ UNCHANGED clusterVars
  /\ UNCHANGED uiVars

\* catchError placed before retryWhen: every failure reaches the subscriber
FailStep_Leaky(c, error) ==
  /\ request[c]
  /\ LET decision == Project(op[c], error, index[c]) IN
     /\ request' = [request EXCEPT ![c] = FALSE]
     /\ index' = NextIndex(index, c)
     /\ lastError' = [lastError EXCEPT ![c] = <<error>>]
     /\ hinted' = [hinted EXCEPT ![c] = @ \/ Truthy(error.retryAfter)]
     /\ delivered' = [delivered EXCEPT ![c] = @ \o <<handleError(error)>>]
     /\ IF decision.kind = "throw"
          THEN /\ pc' = [pc EXCEPT ![c] = "done"]
               /\ UNCHANGED timer
          ELSE /\ pc' = [pc EXCEPT ![c] = "waiting"]
               /\ timer' = [timer EXCEPT ![c] = <<decision.delay>>]
  /\ UNCHANGED <<op, attempts, waits>>
  /\ UNCHANGED clusterVars
  /\ UNCHANGED uiVars

\* a terminal error chosen from the failures seen so far: once some failure
\* carried a retry-after value the call ends as rate-limited
FailStep_RemembersRateLimit(c, error) ==
  /\ request[c]
  /\ LET decision == Project(op[c], error, index[c]) IN
     /\ request' = [request EXCEPT ![c] = FALSE]
     /\ index' = NextIndex(index, c)
     /\ lastError' = [lastError EXCEPT ![c] = <<error>>]
     /\ hinted' = [hinted EXCEPT ![c] = @ \/ Truthy(error.retryAfter)]
     /\ IF decision.kind = "throw"
          THEN /\ pc' = [pc EXCEPT ![c] = "done"]
               /\ delivered' =
                    [delivered EXCEPT ![c] = @ \o
                       <<handleError(IF hinted'[c]
                                       THEN HttpError(429, NoHeader, FALSE)
                                       ELSE error)>>]
               /\ UNCHANGED timer
          ELSE /\ pc' = [pc EXCEPT ![c] = "waiting"]
               /\ timer' = [timer EXCEPT ![c] = <<decision.delay>>]
               /\ UNCHANGED delivered
  /\ UNCHANGED <<op, attempts, waits>>
  /\ UNCHANGED clusterVars
  /\ UNCHANGED uiVars

\* the request answers with error: retryWhen hands it to the mergeMap
\* callback, which starts a timer or throws into catchError(handleError)
FailStep(c, error) ==
  /\ request[c]
  /\ LET decision == Project(op[c], error, index[c]) IN
     /\ request' = [request EXCEPT ![c] = FALSE]
     /\ index' = NextIndex(index, c)
     /\ lastError' = [lastError EXCEPT ![c] = <<error>>]
     /\ hinted' = [hinted EXCEPT ![c] = @ \/ Truthy(error.retryAfter)]
     /\ IF decision.kind = "throw"
          THEN /\ pc' = [pc EXCEPT ![c] = "done"]
               /\ delivered' = [delivered EXCEPT ![c] = @ \o <<handleError(error)>>]
               /\ UNCHANGED timer
          ELSE /\ pc' = [pc EXCEPT ![c] = "waiting"]
               /\ timer' = [timer EXCEPT ![c] = <<decision.delay>>]
               /\ UNCHANGED delivered
  /\ UNCHANGED <<op, attempts, waits>>
  /\ UNCHANGED clusterVars
  /\ UNCHANGED uiVars

Succeed(c) == SucceedStep(c) /\ UNCHANGED <<script, view>>

Fail(c, error) == FailStep(c, error) /\ UNCHANGED <<script, view>>

\* a timer whose emission resubscribes nothing
TimerFire_Lost(c) ==
  /\ timer[c] # <<>>
  /\ timer' = [timer EXCEPT ![c] = <<>>]
  /\ waits' = [waits EXCEPT ![c] = Append(@, timer[c][1])]
  /\ UNCHANGED <<op, pc, request, index, attempts, lastError, hinted,
                 delivered, script>>
  /\ UNCHANGED clusterVars
  /\ UNCHANGED <<view, uiVars>>

\* a periodic timer(delay, delay): it stays armed after it has emitted
TimerFire_Periodic(c) ==
  /\ timer[c] # <<>>
  /\ UNCHANGED timer
  /\ waits' = [waits EXCEPT ![c] = Append(@, timer[c][1])]
  /\ lastError' = [lastError EXCEPT ![c] = <<>>]
  /\ request' = [request EXCEPT ![c] = TRUE]
  /\ attempts' = [attempts EXCEPT ![c] = @ + 1]
  /\ pc' = [pc EXCEPT ![c] = "inflight"]
  /\ UNCHANGED <<op, index, hinted, delivered, script>>
  /\ UNCHANGED clusterVars
  /\ UNCHANGED <<view, uiVars>>

\* timer(delay) emits: retryWhen subscribes to http.get again
TimerFire(c) ==
  /\ timer[c] # <<>>
  /\ timer' = [timer EXCEPT ![c] = <<>>]
  /\ waits' = [waits EXCEPT ![c] = Append(@, timer[c][1])]
  /\ lastError' = [lastError EXCEPT ![c] = <<>>]
  /\ request' = [request EXCEPT ![c] = TRUE]
  /\ attempts' = [attempts EXCEPT ![c] = @ + 1]
  /\ pc' = [pc EXCEPT ![c] = "inflight"]
  /\ UNCHANGED <<op, index, hinted, delivered, script>>
  /\ UNCHANGED clusterVars
  /\ UNCHANGED <<view, uiVars>>

\* an unsubscription that aborts the request but leaves the timer armed
Unsubscribe_KeepTimer(c) ==
  /\ pc[c] \in {"inflight", "waiting"}
  /\ pc' = [pc EXCEPT ![c] = "cancelled"]
  /\ request' = [request EXCEPT ![c] = FALSE]
  /\ UNCHANGED <<op, timer, index, attempts, lastError, hinted, waits,
                 delivered, script>>
  /\ UNCHANGED clusterVars
  /\ UNCHANGED <<view, uiVars>>

\* the subscriber unsubscribes: the request is aborted, the timer cleared
Unsubscribe(c) ==
  /\ pc[c] \in {"inflight", "waiting"}
  /\ pc' = [pc EXCEPT ![c] = "cancelled"]
  /\ request' = [request EXCEPT ![c] = FALSE]
  /\ timer' = [timer EXCEPT ![c] = <<>>]
  /\ UNCHANGED <<op, index, attempts, lastError, hinted, waits, delivered, script>>
  /\ UNCHANGED clusterVars
  /\ UNCHANGED <<view, uiVars>>

\* one call, every error the environment can produce
Next ==
  \E c \in {1} :
    \/ \E o \in Ops : Subscribe(c, o)
    \/ Succeed(c)
    \/ \E error \in Errors : Fail(c, error)
    \/ TimerFire(c)
    \/ Unsubscribe(c)

Spec == Init /\ [][Next]_vars

\* one call whose every attempt is eventually answered and whose every
\* backoff timer eventually fires; the subscriber may still unsubscribe
NextLive ==
  \E c \in {1} :
    \/ \E o \in Ops : Subscribe(c, o)
    \/ Succeed(c)
    \/ \E error \in PairErrors : Fail(c, error)
    \/ TimerFire(c)
    \/ Unsubscribe(c)

Answered == Succeed(1) \/ \E error \in PairErrors : Fail(1, error)

SpecLive ==
  /\ Init
  /\ [][NextLive]_vars
  /\ WF_vars(Answered)
  /\ WF_vars(TimerFire(1))

\* several subscriptions to the getPhotos stream side by side, in any
\* interleaving
NextConc ==
  \E c \in Calls :
    \/ Subscribe(c, "getPhotos")
    \/ Succeed(c)
    \/ \E error \in ConcErrors : Fail(c, error)
    \/ TimerFire(c)
    \/ Unsubscribe(c)

SpecConc == Init /\ [][NextConc]_vars

\* ---------------------------------------------------------------------
\* Paired runs: call 1 is getPhotos, call 2 is getPhotoById, and the
\* environment answers attempt number a of both with the same outcome
\* ---------------------------------------------------------------------
OkOutcome == [ok |-> TRUE, error |-> HttpError(200, NoHeader, FALSE)]
ErrOutcome(error) == [ok |-> FALSE, error |-> error]

InitPair ==
  /\ op = [c \in Calls |-> IF c = 2 THEN "getPhotoById" ELSE "getPhotos"]
  /\ pc = [c \in Calls |-> IF c \in {1, 2} THEN "inflight" ELSE "idle"]
  /\ request = [c \in Calls |-> c \in {1, 2}]
  /\ timer = [c \in Calls |-> <<>>]
  /\ index = [c \in Calls |-> 0]
  /\ attempts = [c \in Calls |-> IF c \in {1, 2} THEN 1 ELSE 0]
  /\ lastError = [c \in Calls |-> <<>>]
  /\ hinted = [c \in Calls |-> FALSE]
  /\ waits = [c \in Calls |-> <<>>]
  /\ delivered = [c \in Calls |-> <<>>]
  /\ script = <<>>
  /\ photos = <<>>
  /\ clusters = <<>>
  /\ UiIdle

\* attempt number attempts[c] is answered as the script says, or extends it
Scripted(c, outcome) ==
  \/ /\ attempts[c] <= Len(script)
     /\ script[attempts[c]] = outcome
     /\ UNCHANGED script
  \/ /\ attempts[c] = Len(script) + 1
     /\ script' = Append(script, outcome)

ScriptedSucceed(c) ==
  Scripted(c, OkOutcome) /\ SucceedStep(c) /\ UNCHANGED view

ScriptedFail(c, error) ==
  Scripted(c, ErrOutcome(error)) /\ FailStep(c, error) /\ UNCHANGED view

NextPair ==
  \E c \in {1, 2} :
    \/ ScriptedSucceed(c)
    \/ \E error \in PairErrors : ScriptedFail(c, error)
    \/ TimerFire(c)

SpecPair == InitPair /\ [][NextPair]_vars

\* ---------------------------------------------------------------------
\* Retry policy: claims
\* ---------------------------------------------------------------------
IsError(c) == Len(delivered[c]) = 1 /\ delivered[c][1].type = "error"
IsSuccess(c) == delivered[c] = <<NextValue, Complete>>

\* C1: a call makes at most 5 HTTP attempts; once its 5th attempt has failed
\* the call is over with an error, no request is in flight and no timer is
\* pending, so no 6th attempt can be issued.
C1_AtMostFiveAttempts ==
  \A c \in Calls :
    /\ attempts[c] <= 5
    /\ index[c] <= 5
    /\ index[c] = 5 =>
         /\ attempts[c] = 5
         /\ pc[c] = "done"
         /\ IsError(c)
         /\ ~request[c]
         /\ timer[c] = <<>>

C1_Witness ==
  \E c \in Calls : index[c] = 5 /\ attempts[c] = 5 /\ op[c] = "getPhotos"

\* C2: a failure without a retry-after value is followed by a wait of
\* 1000 * 2^(k-1) ms before retry k, and a call none of whose failures carried
\* one waits 1000, 2000, 4000, 8000 ms in that order.
C2_BackoffWithoutHint ==
  \A c \in Calls :
    /\ (pc[c] = "waiting" /\ ~Truthy(lastError[c][1].retryAfter)) =>
         timer[c] = <<1000 * 2^(index[c] - 1)>>
    /\ ~hinted[c] =>
         \A k \in 1..Len(waits[c]) : waits[c][k] = 1000 * 2^(k - 1)

C2_Witness ==
  \E c \in Calls :
    /\ op[c] = "getPhotoById"
    /\ ~hinted[c]
    /\ waits[c] = <<1000, 2000, 4000, 8000>>

\* C3: when k attempts fail and attempt k+1 succeeds the subscriber has its
\* result after k fired timers and k+1 requests, nothing is pending after the
\* success, and a request is only ever issued once the preceding timer fired.
C3_SuccessAfterKFailures ==
  \A c \in Calls :
    /\ attempts[c] >= 1 => attempts[c] = Len(waits[c]) + 1
    /\ request[c] => timer[c] = <<>>
    /\ IsSuccess(c) =>
         /\ index[c] <= 4
         /\ Len(waits[c]) = index[c]
         /\ attempts[c] = index[c] + 1
         /\ ~request[c]
         /\ timer[c] = <<>>

C3_Witness ==
  \E c \in Calls :
    IsSuccess(c) /\ index[c] = 3 /\ waits[c] = <<1000, 2000, 4000>>

\* a Retry-After value that is a number of seconds: decimal digits only
IsSeconds(str) == str # <<>> /\ \A i \in 1..Len(str) : IsDigit(str[i])

\* C4: whatever the operation and the status, a retried failure whose
\* Retry-After value is s seconds is followed by a wait of s * 1000 ms.
C4_RetryAfterHonoured ==
  \A c \in Calls :
    (/\ pc[c] = "waiting"
     /\ lastError[c][1].retryAfter.present
     /\ IsSeconds(lastError[c][1].retryAfter.value)) =>
       timer[c] = <<ParseDigits(lastError[c][1].retryAfter.value, 0) * 1000>>

Min(a, b) == IF a <= b THEN a ELSE b

\* C5: answered with the same outcomes, getPhotos (call 1) and getPhotoById
\* (call 2) wait the same durations, and once both are over they have made
\* the same number of attempts and delivered the same kind of outcome.
C5_SamePolicy ==
  /\ \A k \in 1..Min(Len(waits[1]), Len(waits[2])) : waits[1][k] = waits[2][k]
  /\ (pc[1] = "done" /\ pc[2] = "done") =>
       /\ attempts[1] = attempts[2]
       /\ waits[1] = waits[2]
       /\ IsError(1) <=> IsError(2)
       /\ IsSuccess(1) <=> IsSuccess(2)

\* C6: the subscriber of a call receives nothing while the call is retrying,
\* and over the whole call either next followed by complete or one error.
C6_OneTerminalOutcome ==
  \A c \in Calls :
    /\ delivered[c] = <<>> \/ IsSuccess(c) \/ IsError(c)
    /\ pc[c] \in {"idle", "inflight", "waiting", "cancelled"} =>
         delivered[c] = <<>>
    /\ pc[c] = "done" =>
         /\ IsSuccess(c) \/ IsError(c)
         /\ ~request[c]
         /\ timer[c] = <<>>

C6_Witness ==
  \E c \in Calls :
    /\ pc[c] = "waiting"
    /\ index[c] = 4
    /\ delivered[c] = <<>>
    /\ lastError[c][1].status = 503

ClientMessage == "Client Error: " \o EventMessage
RateLimitedMessage == "Rate limit exceeded. Please try again later."
NetworkMessage == "Network error. Please check your connection."
ServerMessage(status) ==
  "Server Error: " \o ToString(status) \o " - Http failure response: "
    \o ToString(status)
ServerMessages == {ServerMessage(st) : st \in Statuses \ {0, 429}}

C8_EveryFailureRetried ==
  \A c \in Calls :
    /\ IsError(c) => index[c] = 5
    /\ (lastError[c] # <<>> /\ index[c] <= 4 /\ pc[c] # "cancelled") =>
         /\ pc[c] = "waiting"
         /\ timer[c] # <<>>
         /\ delivered[c] = <<>>
         /\ ENABLED TimerFire(c)

C8_Witness ==
  \E c \in Calls :
    /\ pc[c] = "waiting"
    /\ op[c] = "getPhotos"
    /\ lastError[c][1].status = 404
    /\ index[c] = 4

\* C9: once a call is cancelled, during a wait or with a request in flight,
\* it stays cancelled: no request is issued, no timer is left to fire and
\* nothing is delivered to its subscriber.
C9_CancelledStaysSilent ==
  /\ [](\A c \in Calls :
          pc[c] = "cancelled" =>
            ~request[c] /\ timer[c] = <<>> /\ delivered[c] = <<>>)
  /\ [][\A c \in Calls :
          pc[c] = "cancelled" =>
            /\ pc'[c] = "cancelled"
            /\ attempts'[c] = attempts[c]
            /\ delivered'[c] = delivered[c]]_vars

C9_Witness ==
  \E c \in Calls :
    /\ pc[c] = "cancelled"
    /\ lastError[c] # <<>>
    /\ index[c] = 2
    /\ attempts[c] = 2

CallState(c) ==
  <<op[c], pc[c], request[c], timer[c], index[c], attempts[c], lastError[c],
    hinted[c], waits[c], delivered[c]>>

\* C10: a call's retry counter counts its own failed attempts only, a call
\* fails terminally only after 5 failures of its own, a waiting call's timer
\* can fire whatever the other calls are doing, and a step of one call leaves
\* the counter, timer and outcome of every other call as they were.
C10_CallsIndependent ==
  /\ [](\A c \in Calls :
          /\ pc[c] = "inflight" => index[c] = attempts[c] - 1
          /\ pc[c] = "waiting" =>
               index[c] = attempts[c] /\ ENABLED TimerFire(c)
          /\ IsSuccess(c) => index[c] = attempts[c] - 1
          /\ IsError(c) => index[c] = 5 /\ attempts[c] = 5)
  /\ [][\A c, d \in Calls :
          (c # d /\ CallState(c)' # CallState(c)) =>
            CallState(d)' = CallState(d)]_vars

C10_Witness ==
  \E c, d \in Calls :
    /\ c # d
    /\ IsError(c)
    /\ pc[d] = "waiting"
    /\ index[d] = 1
    /\ timer[d] = <<1000>>

\* =====================================================================
\* clusterPhotos
\*
\* Numbers.  complexityScore and weight are kept in thousandths (fixed
\* point, truncated); normalizedWeight and the two means of a cluster are
\* exact fractions [num, den] of such numbers, and a fraction with den = 0
\* stands for NaN.
\* =====================================================================

\* largest batch handed to clusterPhotos
MaxBatch == 8

\* thousandths per unit
Milli == 1000

\* Math.max() and Math.min() of no arguments
NegInfinity == -1000000000
Infinity == 1000000000

Frac(num, den) == [num |-> num, den |-> den]
Zero == Frac(0, 1)
IsNaN(f) == f.den = 0

\* a / b + c / d, kept over the common denominator when b = d
FracAdd(f, g) ==
  IF f.den = g.den
    THEN Frac(f.num + g.num, f.den)
    ELSE Frac(f.num * g.den + g.num * f.den, f.den * g.den)

FracSub(f, g) ==
  IF f.den = g.den
    THEN Frac(f.num - g.num, f.den)
    ELSE Frac(f.num * g.den - g.num * f.den, f.den * g.den)

\* -1, 0 or 1; a NaN compares as 0, as Array.prototype.sort reads it
FracSign(f) ==
  IF f.den = 0 \/ f.num = 0 THEN 0
  ELSE IF (f.num > 0) = (f.den > 0) THEN 1 ELSE -1

\* Math.sqrt of a non-negative integer: Newton's iteration on n * 10^6
RECURSIVE NewtonSqrt(_, _)
NewtonSqrt(x, r) ==
  IF r * r <= x THEN r ELSE NewtonSqrt(x, (r + x \div r) \div 2)

MathSqrt(n) ==
  IF n = 0 THEN 0
  ELSE LET x == n * Milli * Milli
       IN NewtonSqrt(x, IF x < 46340 THEN x ELSE 46340)

\* Math.sin of a small angle x: x - x^3 / 6
MathSin(x) ==
  LET x3 == (((x * x) \div Milli) * x) \div Milli
  IN x - x3 \div 6

\* Math.log of x >= 1: halve x down to [1, 2), then
\* ln m = 2 (t + t^3/3 + t^5/5 + t^7/7) with t = (m - 1) / (m + 1)
RECURSIVE MathLog(_)
MathLog(x) ==
  IF x >= 2 * Milli
    THEN 693 + MathLog(x \div 2)
    ELSE LET t == ((x - Milli) * Milli) \div (x + Milli)
             t2 == (t * t) \div Milli
             t3 == (t * t2) \div Milli
             t5 == (t3 * t2) \div Milli
             t7 == (t5 * t2) \div Milli
         IN 2 * (t + t3 \div 3 + t5 \div 5 + t7 \div 7)

\* the first element taken for the largest
MathMax_Head(xs) == IF xs = <<>> THEN NegInfinity ELSE Head(xs)

\* Math.max(...xs) and Math.min(...xs)
RECURSIVE MathMax(_)
MathMax(xs) ==
  IF xs = <<>> THEN NegInfinity
  ELSE LET rest == MathMax(Tail(xs))
       IN IF Head(xs) > rest THEN Head(xs) ELSE rest

RECURSIVE MathMin(_)
MathMin(xs) ==
  IF xs = <<>> THEN Infinity
  ELSE LET rest == MathMin(Tail(xs))
       IN IF Head(xs) < rest THEN Head(xs) ELSE rest

\* String.prototype.toLowerCase on one character
ToLowerCase(ch) ==
  CASE ch = "A" -> "a" [] ch = "B" -> "b" [] ch = "C" -> "c" [] OTHER -> ch

\* Photo (url and thumbnailUrl are carried along unread and left out)
Photo(albumId, id, title) == [albumId |-> albumId, id |-> id, title |-> title]

calculateCharacterVariance(title) ==
  LET chars == [i \in 1..Len(title) |-> ToLowerCase(title[i])]
      uniqueChars == Cardinality({chars[i] : i \in 1..Len(chars)})
      totalChars == Len(chars)
  IN (uniqueChars * 100 * Milli) \div (IF totalChars = 0 THEN 1 ELSE totalChars)

calculateComplexityScore(photo) ==
  LET titleLength == Len(photo.title)
      albumId == photo.albumId
      idModulo == photo.id % 13
      charVariance == calculateCharacterVariance(photo.title)
  IN titleLength * 2500 + albumId * 1800 + idModulo * 3200
       + (charVariance * 41) \div 10

calculateNonLinearWeight(score, albumId, id) ==
  LET logComponent == MathLog(score + Milli)
      sqrtComponent == MathSqrt(albumId)
      trigComponent == Milli + MathSin((id * Milli) \div 100)
  IN (((logComponent * sqrtComponent) \div Milli) * trigComponent) \div Milli

\* the divisor left unguarded
OrOne_Unguarded(x) == x

\* x || 0 and x || 1 on a number
OrZero(x) == x

OrOne(x) == IF x = 0 THEN 1 ELSE x
\* f || 0 on a fraction: NaN is falsy
FracOrZero(f) == IF IsNaN(f) \/ f.num = 0 THEN Zero ELSE f

\* photos.map(photo => ({...photo, complexityScore: ...}))
ScoredPhotos(ps) ==
  [i \in 1..Len(ps) |->
     [albumId |-> ps[i].albumId, id |-> ps[i].id, title |-> ps[i].title,
      complexityScore |-> calculateComplexityScore(ps[i])]]

\* scoredPhotos.map(photo => ({...photo, weight: ...}))
WeightedPhotos(scored) ==
  [i \in 1..Len(scored) |->
     [albumId |-> scored[i].albumId, id |-> scored[i].id,
      title |-> scored[i].title,
      complexityScore |-> scored[i].complexityScore,
      weight |-> calculateNonLinearWeight(scored[i].complexityScore,
                                          scored[i].albumId, scored[i].id)]]

\* weightedPhotos.map(photo => ({...photo, normalizedWeight: ...}))
NormalizedPhotos(weighted) ==
  LET weights == [i \in 1..Len(weighted) |-> weighted[i].weight]
      maxWeight == MathMax(weights)
      minWeight == MathMin(weights)
  IN [i \in 1..Len(weighted) |->
        [albumId |-> weighted[i].albumId, id |-> weighted[i].id,
         title |-> weighted[i].title,
         complexityScore |-> weighted[i].complexityScore,
         weight |-> weighted[i].weight,
         normalizedWeight |->
           Frac(weighted[i].weight - minWeight, OrOne(maxWeight - minWeight))]]

\* the comparator written the other way round: ascending order
compareFn_Ascending(a, b) == FracSub(a.normalizedWeight, b.normalizedWeight)

\* the comparator (a, b) => b.normalizedWeight - a.normalizedWeight
compareFn(a, b) == FracSub(b.normalizedWeight, a.normalizedWeight)

\* an unstable sort: x goes in front of the elements it ties with
RECURSIVE InsertSorted_Unstable(_, _)
InsertSorted_Unstable(arr, x) ==
  IF arr = <<>> THEN <<x>>
  ELSE IF FracSign(compareFn(Head(arr), x)) >= 0
    THEN <<x>> \o arr
    ELSE <<Head(arr)>> \o InsertSorted_Unstable(Tail(arr), x)

\* Array.prototype.sort is stable: x goes before the first element that the
\* comparator puts after it, and so behind every element it ties with
RECURSIVE InsertSorted(_, _)
InsertSorted(arr, x) ==
  IF arr = <<>> THEN <<x>>
  ELSE IF FracSign(compareFn(Head(arr), x)) > 0
    THEN <<x>> \o arr
    ELSE <<Head(arr)>> \o InsertSorted(Tail(arr), x)

RECURSIVE SortFrom(_, _)
SortFrom(done, rest) ==
  IF rest = <<>> THEN done
  ELSE SortFrom(InsertSorted(done, Head(rest)), Tail(rest))

\* [...normalizedPhotos].sort(compareFn)
Sorted(normalized) == SortFrom(<<>>, normalized)

\* floor(length / 4) + 1
quartileSize_FloorPlusOne(length) == length \div 4 + 1

\* Math.floor(length / 4)
quartileSize_Floor(length) == length \div 4

\* Math.round(length / 4)
quartileSize_Round(length) == (length + 2) \div 4

\* Math.ceil(length / 4)
quartileSize(length) == (length + 3) \div 4

\* a slice that takes the element at end as well
Slice_Inclusive(arr, start, end) ==
  LET from == IF start > Len(arr) THEN Len(arr) ELSE start
      to == IF end + 1 > Len(arr) THEN Len(arr) ELSE end + 1
  IN IF from >= to THEN <<>> ELSE SubSeq(arr, from + 1, to)

\* arr.slice(start, end) for start, end >= 0: both are clamped to the length
Slice(arr, start, end) ==
  LET from == IF start > Len(arr) THEN Len(arr) ELSE start
      to == IF end > Len(arr) THEN Len(arr) ELSE end
  IN IF from >= to THEN <<>> ELSE SubSeq(arr, from + 1, to)

\* the start index ignored
SliceFrom_Whole(arr, start) == arr

\* arr.slice(start)
SliceFrom(arr, start) == Slice(arr, start, Len(arr))

\* the sum taken over weight instead of complexityScore
RECURSIVE SumScores_OfWeights(_)
SumScores_OfWeights(ps) ==
  IF ps = <<>> THEN 0
  ELSE OrZero(Head(ps).weight) + SumScores_OfWeights(Tail(ps))

RECURSIVE SumScores(_)
SumScores(ps) ==
  IF ps = <<>> THEN 0
  ELSE OrZero(Head(ps).complexityScore) + SumScores(Tail(ps))

\* the sum taken over weight instead of normalizedWeight
RECURSIVE SumWeights_Raw(_, _)
SumWeights_Raw(acc, ps) ==
  IF ps = <<>> THEN acc
  ELSE SumWeights_Raw(FracAdd(acc, Frac(Head(ps).weight, Milli)), Tail(ps))

RECURSIVE SumWeights(_, _)
SumWeights(acc, ps) ==
  IF ps = <<>> THEN acc
  ELSE SumWeights(FracAdd(acc, FracOrZero(Head(ps).normalizedWeight)), Tail(ps))

\* the mean without its test for an empty array: 0 / 0
getAverageScore_NoGuard(ps) == Frac(SumScores(ps), Len(ps))

getAverageScore(ps) ==
  IF Len(ps) = 0 THEN Zero ELSE Frac(SumScores(ps), Len(ps))

getAverageWeight(ps) ==
  IF Len(ps) = 0 THEN Zero
  ELSE LET sum == SumWeights(Zero, ps) IN Frac(sum.num, sum.den * Len(ps))

ClusterResult(label, ps) ==
  [cluster |-> label, photos |-> ps,
   complexityScore |-> getAverageScore(ps), weight |-> getAverageWeight(ps)]

\* photos.sort(..) on the argument itself instead of on a copy
clusterPhotos_SortInPlace(ps) ==
  LET scoredPhotos == ScoredPhotos(ps)
      weightedPhotos == WeightedPhotos(scoredPhotos)
      normalizedPhotos == NormalizedPhotos(weightedPhotos)
      sorted == Sorted(normalizedPhotos)
      q == quartileSize(Len(sorted))
  IN [returned |->
        <<ClusterResult("A", Slice(sorted, 0, q)),
          ClusterResult("B", Slice(sorted, q, q * 2)),
          ClusterResult("C", Slice(sorted, q * 2, q * 3)),
          ClusterResult("D", SliceFrom(sorted, q * 3))>>,
      argument |->
        [i \in 1..Len(sorted) |->
           Photo(sorted[i].albumId, sorted[i].id, sorted[i].title)]]

\* clusterPhotos: the array it returns, and the argument array as the call
\* leaves it (map and the spread copy read photos, nothing writes to it)
clusterPhotos(ps) ==
  LET scoredPhotos == ScoredPhotos(ps)
      weightedPhotos == WeightedPhotos(scoredPhotos)
      normalizedPhotos == NormalizedPhotos(weightedPhotos)
      sorted == Sorted(normalizedPhotos)
      q == quartileSize(Len(sorted))
  IN [returned |->
        <<ClusterResult("A", Slice(sorted, 0, q)),
          ClusterResult("B", Slice(sorted, q, q * 2)),
          ClusterResult("C", Slice(sorted, q * 2, q * 3)),
          ClusterResult("D", SliceFrom(sorted, q * 3))>>,
      argument |-> ps]

\* the batches: ids run upwards from a first id, albumId and title per item
PhotoKinds ==
  {[albumId |-> 1, title |-> <<"a", "b">>],
   [albumId |-> 2, title |-> <<"A", "a">>],
   [albumId |-> 0, title |-> <<"b">>]}
FirstIds == {1}

Batch(firstId, kinds) ==
  [i \in 1..Len(kinds) |->
     Photo(kinds[i].albumId, firstId + i - 1, kinds[i].title)]

InitCluster ==
  /\ op = [c \in Calls |-> "getPhotos"]
  /\ pc = [c \in Calls |-> "idle"]
  /\ request = [c \in Calls |-> FALSE]
  /\ timer = [c \in Calls |-> <<>>]
  /\ index = [c \in Calls |-> 0]
  /\ attempts = [c \in Calls |-> 0]
  /\ lastError = [c \in Calls |-> <<>>]
  /\ hinted = [c \in Calls |-> FALSE]
  /\ waits = [c \in Calls |-> <<>>]
  /\ delivered = [c \in Calls |-> <<>>]
  /\ script = <<>>
  /\ \E n \in 0..MaxBatch :
       \E kinds \in [1..n -> PhotoKinds] :
         \E firstId \in FirstIds :
           photos = Batch(firstId, kinds)
  /\ clusters = <<>>
  /\ UiIdle

\* a caller runs clusterPhotos on its array; it may do so again
CallClusterPhotos ==
  /\ LET call == clusterPhotos(photos) IN
       /\ clusters' = <<call.returned>>
       /\ photos' = call.argument
  /\ UNCHANGED retryVars
  /\ UNCHANGED <<view, uiVars>>

NextCluster == CallClusterPhotos

SpecCluster == InitCluster /\ [][NextCluster]_vars

\* ---------------------------------------------------------------------
\* clusterPhotos: claims
\* ---------------------------------------------------------------------
Called == clusters # <<>>
ClusterA == clusters[1][1]
ClusterB == clusters[1][2]
ClusterC == clusters[1][3]
ClusterD == clusters[1][4]
\* the photos of A, B, C, D one after the other
Concatenation ==
  ClusterA.photos \o ClusterB.photos \o ClusterC.photos \o ClusterD.photos
\* what an output item was on input
Strip(p) == Photo(p.albumId, p.id, p.title)
\* ceil(n / 4), from its definition
Ceil4(n) == CHOOSE q \in 0..n : 4 * q >= n /\ (q = 0 \/ 4 * (q - 1) < n)
\* f >= g for two numbers that are not NaN
FracGeq(f, g) == ~IsNaN(f) /\ ~IsNaN(g) /\ FracSign(FracSub(f, g)) >= 0
FracEq(f, g) == ~IsNaN(f) /\ ~IsNaN(g) /\ FracSign(FracSub(f, g)) = 0
\* where the input item with this id stands in the concatenation
PositionOf(id) == CHOOSE j \in 1..Len(Concatenation) : Concatenation[j].id = id

\* C11: the concatenation of the photos of A, B, C, D has as many items as
\* the input and every input item is in it exactly once.
C11_Partition ==
  Called =>
    /\ Len(Concatenation) = Len(photos)
    /\ \A i \in 1..Len(photos) :
         Cardinality({j \in 1..Len(Concatenation) :
                        Strip(Concatenation[j]) = photos[i]}) = 1

C11_Witness ==
  /\ Called
  /\ Len(photos) = 7
  /\ Strip(Concatenation[1]) # photos[1]
  /\ Len(ClusterD.photos) = 1

SizeA == Len(ClusterA.photos)
SizeB == Len(ClusterB.photos)
SizeC == Len(ClusterC.photos)
SizeD == Len(ClusterD.photos)
\* the sizes for which three slices of ceil(n / 4) overrun the batch
ShortSizes == {1, 2, 5}

\* C12, as stated: for every input size n, each of A, B and C has exactly
\* ceil(n / 4) members and D holds the remainder.
C12_EqualThirds ==
  Called =>
    LET n == Len(photos) IN
      /\ SizeA = Ceil4(n)
      /\ SizeB = Ceil4(n)
      /\ SizeC = Ceil4(n)
      /\ SizeD = n - SizeA - SizeB - SizeC

\* C12, amended: for every input size n other than 1, 2 and 5, each of A, B
\* and C has exactly ceil(n / 4) members and D holds the remainder; for
\* n = 1, 2 and 5, where 3 * ceil(n / 4) > n, A has ceil(n / 4) members, B has
\* what is left up to ceil(n / 4), C has what is left after B, and D is empty.
C12_EqualThirdsWhenTheyFit ==
  Called =>
    LET n == Len(photos)
        q == Ceil4(n)
    IN /\ (3 * q > n) <=> (n \in ShortSizes)
       /\ n \notin ShortSizes =>
            /\ SizeA = q
            /\ SizeB = q
            /\ SizeC = q
            /\ SizeD = n - 3 * q
       /\ n \in ShortSizes =>
            /\ SizeA = q
            /\ SizeB = Min(q, n - q)
            /\ SizeC = n - SizeA - SizeB
            /\ SizeC < q
            /\ SizeD = 0

C12_Witness ==
  /\ Called
  /\ Len(photos) = 5
  /\ SizeA = 2
  /\ SizeB = 2
  /\ SizeC = 1
  /\ SizeD = 0

\* C13, as stated: for every input size n, the size of D equals
\* n - 3 * ceil(n / 4), and that value is never negative.
C13_RemainderNeverNegative ==
  Called =>
    LET n == Len(photos) IN
      /\ SizeD = n - 3 * Ceil4(n)
      /\ n - 3 * Ceil4(n) >= 0

\* C13, amended: for every input size n, the size of D equals
\* max(0, n - 3 * ceil(n / 4)); n - 3 * ceil(n / 4) itself is negative exactly
\* for n = 1, 2 and 5, and D is empty then.
C13_RemainderOrEmpty ==
  Called =>
    LET n == Len(photos)
        r == n - 3 * Ceil4(n)
    IN /\ SizeD = (IF r > 0 THEN r ELSE 0)
       /\ (r < 0) <=> (n \in ShortSizes)

C13_Witness ==
  /\ Called
  /\ Len(photos) = 2
  /\ Len(photos) - 3 * Ceil4(Len(photos)) = -1
  /\ SizeD = 0

\* the items of a cluster are in non-increasing normalizedWeight order
Ranked(ps) ==
  \A i, j \in 1..Len(ps) :
    i < j => FracGeq(ps[i].normalizedWeight, ps[j].normalizedWeight)
\* every item of the earlier cluster is at least every item of the later one
Above(earlier, later) ==
  \A i \in 1..Len(earlier) : \A j \in 1..Len(later) :
    FracGeq(earlier[i].normalizedWeight, later[j].normalizedWeight)

\* C14: within each cluster the items are in non-increasing normalizedWeight
\* order, and every item of an earlier cluster has normalizedWeight >= every
\* item of any later cluster.
C14_Ranked ==
  Called =>
    /\ \A k \in 1..4 : Ranked(clusters[1][k].photos)
    /\ \A k, l \in 1..4 :
         k < l => Above(clusters[1][k].photos, clusters[1][l].photos)

C14_Witness ==
  /\ Called
  /\ Len(photos) = 8
  /\ SizeD = 2
  /\ ~FracEq(ClusterA.photos[1].normalizedWeight,
             ClusterD.photos[2].normalizedWeight)
  /\ ~FracEq(ClusterA.photos[1].normalizedWeight,
             ClusterA.photos[2].normalizedWeight)
  /\ photos[1].albumId = 0
  /\ photos[8].albumId = 2

\* the normalizedWeight clusterPhotos gave the input item at index i
NormalizedWeightOf(i) == Concatenation[PositionOf(photos[i].id)].normalizedWeight

\* C15: of two input items with equal normalizedWeight, the one that comes
\* first in the input comes first in the concatenation A, B, C, D.
C15_TiesKeepInputOrder ==
  Called =>
    \A i, j \in 1..Len(photos) :
      (i < j /\ FracEq(NormalizedWeightOf(i), NormalizedWeightOf(j)))
        => PositionOf(photos[i].id) < PositionOf(photos[j].id)

C15_Witness ==
  /\ Called
  /\ Len(photos) = 6
  /\ \E i, j \in 1..Len(photos) :
       /\ i < j
       /\ FracEq(NormalizedWeightOf(i), NormalizedWeightOf(j))
       /\ PositionOf(photos[i].id) # i
       /\ PositionOf(photos[j].id) # j
       /\ PositionOf(photos[i].id) < PositionOf(photos[j].id)

\* every item of the batch got the same weight
SameWeights ==
  \A i, j \in 1..Len(Concatenation) :
    Concatenation[i].weight = Concatenation[j].weight

\* C16: when every item of a non-empty batch has the same weight, every
\* normalizedWeight is exactly 0 and is a number, and the concatenation
\* A, B, C, D lists the items in input order.
C16_EqualWeightsNormaliseToZero ==
  (Called /\ photos # <<>> /\ SameWeights) =>
    /\ \A i \in 1..Len(Concatenation) :
         /\ ~IsNaN(Concatenation[i].normalizedWeight)
         /\ Concatenation[i].normalizedWeight.num = 0
    /\ ~IsNaN(ClusterA.weight)
    /\ ClusterA.weight.num = 0
    /\ Len(Concatenation) = Len(photos)
    /\ \A i \in 1..Len(photos) : Strip(Concatenation[i]) = photos[i]

C16_Witness ==
  /\ Called
  /\ Len(photos) = 3
  /\ SameWeights
  /\ SizeC = 1
  /\ ClusterC.photos[1].normalizedWeight = Zero
  /\ ClusterC.photos[1].id = photos[3].id

\* a mean that is the number 0
IsZero(f) == ~IsNaN(f) /\ f.num = 0

\* C18: on the empty batch clusterPhotos returns four clusters labelled
\* A, B, C, D in that order, each with no photos, mean complexity score 0
\* and mean weight 0.
C18_EmptyBatch ==
  (Called /\ photos = <<>>) =>
    /\ Len(clusters[1]) = 4
    /\ <<ClusterA.cluster, ClusterB.cluster, ClusterC.cluster,
         ClusterD.cluster>> = <<"A", "B", "C", "D">>
    /\ \A k \in 1..4 :
         /\ clusters[1][k].photos = <<>>
         /\ IsZero(clusters[1][k].complexityScore)
         /\ IsZero(clusters[1][k].weight)

C18_Witness ==
  /\ Called
  /\ photos = <<>>
  /\ ClusterD.cluster = "D"

\* C19: on a batch of one item clusterPhotos puts the item in A, leaves B, C
\* and D empty, and A's mean complexity score is the item's complexity score.
C19_SingleItem ==
  (Called /\ Len(photos) = 1) =>
    /\ SizeA = 1
    /\ Strip(ClusterA.photos[1]) = photos[1]
    /\ ClusterB.photos = <<>>
    /\ ClusterC.photos = <<>>
    /\ ClusterD.photos = <<>>
    /\ ~IsNaN(ClusterA.complexityScore)
    /\ ClusterA.complexityScore.num =
         calculateComplexityScore(photos[1]) * ClusterA.complexityScore.den

C19_Witness ==
  /\ Called
  /\ Len(photos) = 1
  /\ photos[1].albumId = 2
  /\ SizeA = 1
  /\ ClusterA.complexityScore.num > 0

\* C20: a call of clusterPhotos leaves the input sequence as it was (same
\* items, same order, same field values) and changes nothing but the value
\* it returns to its caller.
C20_InputUntouched ==
  [][photos' = photos /\ retryVars' = retryVars]_vars

C20_Witness ==
  /\ Called
  /\ Len(photos) = 4
  /\ \E i \in 1..4 : Strip(Concatenation[i]) # photos[i]
  /\ photos[1].id = 1
  /\ photos[4].id = 4

\* C21: every normalizedWeight of the output is a number in [0, 1]; when the
\* weights of the batch are not all equal, an item of the largest weight has
\* normalizedWeight 1 and an item of the smallest weight has 0.
C21_NormalizedRange ==
  Called =>
    LET out == Concatenation IN
      /\ \A i \in 1..Len(out) :
           /\ out[i].normalizedWeight.den > 0
           /\ out[i].normalizedWeight.num >= 0
           /\ out[i].normalizedWeight.num <= out[i].normalizedWeight.den
      /\ ~SameWeights =>
           \A i \in 1..Len(out) :
             /\ (\A j \in 1..Len(out) : out[i].weight >= out[j].weight)
                  => out[i].normalizedWeight.num = out[i].normalizedWeight.den
             /\ (\A j \in 1..Len(out) : out[i].weight <= out[j].weight)
                  => out[i].normalizedWeight.num = 0

C21_Witness ==
  /\ Called
  /\ Len(photos) = 3
  /\ SizeC = 1
  /\ ClusterA.photos[1].weight > ClusterB.photos[1].weight
  /\ ClusterB.photos[1].weight > ClusterC.photos[1].weight
  /\ ClusterB.photos[1].normalizedWeight.num > 0
  /\ ClusterB.photos[1].normalizedWeight.num
       < ClusterB.photos[1].normalizedWeight.den

\* the total of the members' complexity scores, and of the numerators of
\* their normalized weights (which share one denominator)
RECURSIVE TotalScore(_)
TotalScore(ps) ==
  IF ps = <<>> THEN 0 ELSE ps[Len(ps)].complexityScore
                           + TotalScore(SubSeq(ps, 1, Len(ps) - 1))
RECURSIVE TotalNormalized(_)
TotalNormalized(ps) ==
  IF ps = <<>> THEN 0 ELSE ps[Len(ps)].normalizedWeight.num
                           + TotalNormalized(SubSeq(ps, 1, Len(ps) - 1))
\* the mean f is total / (den * count)
IsMean(f, total, den, count) ==
  /\ ~IsNaN(f)
  /\ \/ f.num = total /\ f.den = den * count
     \/ total = 0 /\ f.num = 0

\* C22: the complexityScore of a cluster is the arithmetic mean of its
\* members' complexity scores and its weight is the arithmetic mean of their
\* normalized weights; a cluster with no members reports 0 for both.
C22_ClusterMeans ==
  Called =>
    \A k \in 1..4 :
      LET c == clusters[1][k]
          ps == c.photos
      IN IF ps = <<>>
           THEN IsZero(c.complexityScore) /\ IsZero(c.weight)
           ELSE /\ \A i \in 1..Len(ps) :
                     ps[i].normalizedWeight.den = ps[1].normalizedWeight.den
                /\ IsMean(c.complexityScore, TotalScore(ps), 1, Len(ps))
                /\ IsMean(c.weight, TotalNormalized(ps),
                          ps[1].normalizedWeight.den, Len(ps))

C22_Witness ==
  /\ Called
  /\ Len(photos) = 7
  /\ SizeA = 2
  /\ ClusterA.weight.num > 0
  /\ ClusterA.photos[1].normalizedWeight # ClusterA.photos[2].normalizedWeight
  /\ ClusterA.photos[1].complexityScore # ClusterA.photos[2].complexityScore
  /\ ClusterA.photos[1].weight # ClusterA.photos[1].normalizedWeight.num

\* C23: for every input whose size n is a positive multiple of 4, each of
\* A, B, C and D has exactly n / 4 members and none is empty.
C23_EqualQuarters ==
  (Called /\ Len(photos) > 0 /\ Len(photos) % 4 = 0) =>
    \A k \in 1..4 :
      /\ 4 * Len(clusters[1][k].photos) = Len(photos)
      /\ clusters[1][k].photos # <<>>

C23_Witness ==
  /\ Called
  /\ Len(photos) = 4
  /\ SizeA = 1
  /\ SizeB = 1
  /\ SizeC = 1
  /\ SizeD = 1

\* C28: with q = ceil(n / 4), |A| = min(q, n), |B| = min(q, n - |A|),
\* |C| = min(q, n - |A| - |B|), |D| = n - |A| - |B| - |C|; no cluster has
\* more than q members and a cluster is non-empty only if every earlier
\* cluster has exactly q members.
C28_FilledInLabelOrder ==
  Called =>
    LET n == Len(photos)
        q == Ceil4(n)
        size == [k \in 1..4 |-> Len(clusters[1][k].photos)]
    IN /\ size[1] = Min(q, n)
       /\ size[2] = Min(q, n - size[1])
       /\ size[3] = Min(q, n - size[1] - size[2])
       /\ size[4] = n - size[1] - size[2] - size[3]
       /\ \A k \in 1..4 : size[k] <= q
       /\ \A k, l \in 1..4 : (k < l /\ size[l] > 0) => size[k] = q

C28_Witness ==
  /\ Called
  /\ Len(photos) = 6
  /\ SizeA = 2
  /\ SizeB = 2
  /\ SizeC = 2
  /\ SizeD = 0

\* the message of the class a failure falls in by its status
ClassMessage(error) ==
  IF error.status = 429 THEN RateLimitedMessage
  ELSE IF error.status = 0 THEN NetworkMessage
  ELSE ServerMessage(error.status)

\* C27: the error a call ends with is the class of the failure of its 5th
\* attempt, whatever the failures of attempts 1 to 4 were.
C27_LastFailureDecides ==
  \A c \in {1, 2} :
    IsError(c) =>
      /\ Len(script) = MAX_RETRIES + 1
      /\ \A a \in 1..Len(script) : ~script[a].ok
      /\ delivered[c][1] =
           ErrorOf("Error", ClassMessage(script[MAX_RETRIES + 1].error))

C27_Witness ==
  /\ IsError(1)
  /\ IsError(2)
  /\ script[1].error.status = 429
  /\ Truthy(script[1].error.retryAfter)
  /\ script[2].error.status = 0
  /\ script[3].error.status = 429
  /\ script[4].error.status = 503
  /\ script[5].error.status = 0
  /\ delivered[1][1].message = NetworkMessage

\* C25: when every attempt is eventually answered and every backoff timer
\* eventually fires, a call that has been made and is not cancelled
\* eventually delivers its terminal outcome: the value and completion, or
\* the terminal error.
C25_EventuallyTerminal ==
  (attempts[1] > 0) ~> (pc[1] = "cancelled" \/ IsSuccess(1) \/ IsError(1))

C25_Witness ==
  /\ IsError(1)
  /\ op[1] = "getPhotoById"
  /\ attempts[1] = MAX_RETRIES + 1
  /\ waits[1] = <<1000, 2000, 4000, 8000>>
  /\ timer[1] = <<>>
  /\ ~request[1]

\* ---------------------------------------------------------------------
\* DebugComponent: memory snapshots
\* ---------------------------------------------------------------------
MaxSnapshots == 22
MaxNavigations == 1
\* "Keep only last 20 snapshots"
SnapshotLimit == 20
Routes == {"/debug", "/"}
\* performance.memory.usedJSHeapSize as read while a route is shown (MB)
UsedJSHeapSize(url) == IF url = "/debug" THEN 50 ELSE 60

\* the component after its constructor and ngOnInit: on the server nothing
\* is scheduled; in the browser the first snapshot is due and the router
\* events are subscribed to
DebugComponent(isBrowser, memoryApi) ==
  [isBrowser |-> isBrowser,
   memoryApiAvailable |-> isBrowser /\ memoryApi,
   memorySnapshots |-> <<>>,
   previousMemory |-> 0,
   routerSubscription |-> isBrowser,
   url |-> "/debug",
   timeouts |-> IF isBrowser THEN 1 ELSE 0,
   navigations |-> 0,
   now |-> 0]

\* the new snapshot put at the end of the list
takeSnapshot_Push(d) ==
  IF ~d.isBrowser \/ ~d.memoryApiAvailable THEN d
  ELSE
    LET currentMemory == UsedJSHeapSize(d.url)
        delta == IF d.previousMemory # 0
                   THEN currentMemory - d.previousMemory ELSE 0
        snapshot == [route |-> d.url, timestamp |-> d.now,
                     usedJSHeapSize |-> currentMemory, delta |-> delta]
        pushed == Append(d.memorySnapshots, snapshot)
    IN [d EXCEPT
          !.memorySnapshots =
             IF Len(pushed) > SnapshotLimit
               THEN Slice(pushed, 0, SnapshotLimit) ELSE pushed,
          !.previousMemory = currentMemory,
          !.now = @ + 1]

\* takeSnapshot: unshift the snapshot, remember the reading, keep 20
takeSnapshot(d) ==
  IF ~d.isBrowser \/ ~d.memoryApiAvailable THEN d
  ELSE
    LET currentMemory == UsedJSHeapSize(d.url)
        delta == IF d.previousMemory # 0
                   THEN currentMemory - d.previousMemory ELSE 0
        snapshot == [route |-> d.url, timestamp |-> d.now,
                     usedJSHeapSize |-> currentMemory, delta |-> delta]
        unshifted == <<snapshot>> \o d.memorySnapshots
    IN [d EXCEPT
          !.memorySnapshots =
             IF Len(unshifted) > SnapshotLimit
               THEN Slice(unshifted, 0, SnapshotLimit) ELSE unshifted,
          !.previousMemory = currentMemory,
          !.now = @ + 1]

debugFrame == UNCHANGED <<retryVars, clusterVars, view, grid, perf>>

InitDebug ==
  /\ op = [c \in Calls |-> "getPhotos"]
  /\ pc = [c \in Calls |-> "idle"]
  /\ request = [c \in Calls |-> FALSE]
  /\ timer = [c \in Calls |-> <<>>]
  /\ index = [c \in Calls |-> 0]
  /\ attempts = [c \in Calls |-> 0]
  /\ lastError = [c \in Calls |-> <<>>]
  /\ hinted = [c \in Calls |-> FALSE]
  /\ waits = [c \in Calls |-> <<>>]
  /\ delivered = [c \in Calls |-> <<>>]
  /\ script = <<>>
  /\ photos = <<>>
  /\ clusters = <<>>
  /\ view = [c \in Calls |-> NoView]
  /\ \E isBrowser \in BOOLEAN : \E memoryApi \in BOOLEAN :
       debug = DebugComponent(isBrowser, memoryApi)
  /\ grid = NoGrid
  /\ perf = NoPerf

\* a setTimeout(() => this.takeSnapshot(), ..) callback runs
SnapshotTimeout ==
  /\ debug.timeouts > 0
  /\ debug.now < MaxSnapshots
  /\ debug' = [takeSnapshot(debug) EXCEPT !.timeouts = @ - 1]
  /\ debugFrame

\* the router reports NavigationEnd: a snapshot is scheduled
NavigationEnd(url) ==
  /\ debug.routerSubscription
  /\ debug.navigations < MaxNavigations
  /\ debug' = [debug EXCEPT !.url = url, !.timeouts = @ + 1,
                            !.navigations = @ + 1]
  /\ debugFrame

\* (click)="takeSnapshot()"
ClickTakeSnapshot ==
  /\ debug.isBrowser
  /\ debug.now < MaxSnapshots
  /\ debug' = takeSnapshot(debug)
  /\ debugFrame

\* ngOnDestroy: the router subscription ends, scheduled timeouts stay
DebugDestroy ==
  /\ debug.routerSubscription
  /\ debug' = [debug EXCEPT !.routerSubscription = FALSE]
  /\ debugFrame

NextDebug ==
  \/ SnapshotTimeout
  \/ \E url \in Routes : NavigationEnd(url)
  \/ ClickTakeSnapshot
  \/ DebugDestroy

SpecDebug == InitDebug /\ [][NextDebug]_vars

\* C24: memorySnapshots holds at most 20 entries, they are the snapshots
\* taken last, and they are ordered newest first.
C24_LastTwentyNewestFirst ==
  LET list == debug.memorySnapshots IN
    /\ Len(list) <= SnapshotLimit
    /\ Len(list) = Min(debug.now, SnapshotLimit)
    /\ \A i \in 1..Len(list) : list[i].timestamp = debug.now - i

C24_Witness ==
  /\ debug.now = MaxSnapshots
  /\ Len(debug.memorySnapshots) = SnapshotLimit
  /\ debug.memorySnapshots[1].timestamp = MaxSnapshots - 1
  /\ debug.memorySnapshots[1].route = "/"
  /\ debug.memorySnapshots[SnapshotLimit].route = "/debug"
  /\ debug.timeouts = 0

\* ---------------------------------------------------------------------
\* ImageGridComponent: pagination
\* ---------------------------------------------------------------------
MaxPhotos == 60
pageSize == 12

\* the component after its constructor, with the list its template hands
\* to getPaginatedPhotos, getTotalPages and nextPage
ImageGridComponent(isBrowser, length) ==
  [currentPage |-> 1,
   isBrowser |-> isBrowser,
   photos |-> [i \in 1..length |-> i],
   scrollTop |-> 0]

getPaginatedPhotos(g) ==
  LET startIndex == (g.currentPage - 1) * pageSize
      endIndex == startIndex + pageSize
  IN Slice(g.photos, startIndex, endIndex)

\* Math.ceil(photos.length / this.pageSize)
getTotalPages(g) == (Len(g.photos) + pageSize - 1) \div pageSize

\* window.scrollTo({top: 0}) in the browser
scrollToTop(g) == IF g.isBrowser THEN [g EXCEPT !.scrollTop = 0] ELSE g

\* a test that lets the page past the last one
nextPage_OffByOne(g) ==
  IF g.currentPage <= getTotalPages(g)
    THEN scrollToTop([g EXCEPT !.currentPage = @ + 1])
    ELSE g

nextPage(g) ==
  IF g.currentPage < getTotalPages(g)
    THEN scrollToTop([g EXCEPT !.currentPage = @ + 1])
    ELSE g

previousPage(g) ==
  IF g.currentPage > 1
    THEN scrollToTop([g EXCEPT !.currentPage = @ - 1])
    ELSE g

gridFrame == UNCHANGED <<retryVars, clusterVars, view, debug, perf>>

InitGrid ==
  /\ op = [c \in Calls |-> "getPhotos"]
  /\ pc = [c \in Calls |-> "idle"]
  /\ request = [c \in Calls |-> FALSE]
  /\ timer = [c \in Calls |-> <<>>]
  /\ index = [c \in Calls |-> 0]
  /\ attempts = [c \in Calls |-> 0]
  /\ lastError = [c \in Calls |-> <<>>]
  /\ hinted = [c \in Calls |-> FALSE]
  /\ waits = [c \in Calls |-> <<>>]
  /\ delivered = [c \in Calls |-> <<>>]
  /\ script = <<>>
  /\ photos = <<>>
  /\ clusters = <<>>
  /\ view = [c \in Calls |-> NoView]
  /\ debug = NoDebug
  /\ \E isBrowser \in BOOLEAN : \E length \in 0..MaxPhotos :
       grid = ImageGridComponent(isBrowser, length)
  /\ perf = NoPerf

\* (click)="nextPage(photos)"
ClickNextPage ==
  /\ grid' = nextPage(grid)
  /\ gridFrame

\* (click)="previousPage()"
ClickPreviousPage ==
  /\ grid' = previousPage(grid)
  /\ gridFrame

\* the user scrolls the window down
WindowScroll ==
  /\ grid.isBrowser
  /\ grid' = [grid EXCEPT !.scrollTop = 1]
  /\ gridFrame

NextGrid ==
  \/ ClickNextPage
  \/ ClickPreviousPage
  \/ WindowScroll

SpecGrid == InitGrid /\ [][NextGrid]_vars

\* ceil(n / d), from its definition
CeilDiv(n, d) == CHOOSE q \in 0..n : d * q >= n /\ (q = 0 \/ d * (q - 1) < n)
LastPage == LET t == CeilDiv(Len(grid.photos), 12) IN IF t > 1 THEN t ELSE 1

\* C29: for a fixed list of length L, 1 <= currentPage <= max(1, ceil(L / 12))
\* after any sequence of nextPage and previousPage calls, the page shown
\* holds at most 12 photos, and currentPage moves by one page at a time,
\* never forward from the last page and never back from page 1.
C29_PageWithinBounds ==
  /\ [](/\ grid.currentPage >= 1
        /\ grid.currentPage <= LastPage
        /\ Len(getPaginatedPhotos(grid)) <= 12)
  /\ [][/\ grid'.photos = grid.photos
        /\ grid'.currentPage > grid.currentPage =>
             /\ grid.currentPage < LastPage
             /\ grid'.currentPage = grid.currentPage + 1
        /\ grid'.currentPage < grid.currentPage =>
             /\ grid.currentPage > 1
             /\ grid'.currentPage = grid.currentPage - 1]_vars

C29_Witness ==
  /\ Len(grid.photos) = 50
  /\ grid.currentPage = 5
  /\ Len(getPaginatedPhotos(grid)) = 2
  /\ grid.isBrowser
  /\ grid.scrollTop = 0

\* ---------------------------------------------------------------------
\* ImageGridComponent.photos$ and ClustersComponent.clusters$: the streams
\* the templates subscribe to, built on getPhotos
\* ---------------------------------------------------------------------
\* call 1 is the subscription of photos$, call 2 that of clusters$
Component(c) == IF c = 2 THEN "clusters" ELSE "grid"
\* the bodies a successful fetch may carry
Fetched ==
  {<<>>,
   Batch(1, <<[albumId |-> 1, title |-> <<"a", "b">>]>>),
   Batch(1, <<[albumId |-> 0, title |-> <<"b">>],
              [albumId |-> 2, title |-> <<"A", "a">>]>>)}
\* the fetched list is cut to its first 500 items
SliceLimit == 500
\* this.imgArr.length
ImgArrLength == 4

ViewNext(value) == [type |-> "next", value |-> value]
ViewComplete == [type |-> "complete", value |-> <<>>]
ViewError(error) == [type |-> "error", value |-> error]

\* photos.map((photo, index) => ({...photo, displayUrl: imgArr[index % 4]}))
WithDisplayUrl(ps) ==
  [i \in 1..Len(ps) |-> [photo |-> ps[i], displayUrl |-> (i - 1) % ImgArrLength]]

\* the map stages of the pipe applied to a fetched list
ViewOnNext(component, v, fetched) ==
  IF component = "grid"
    THEN [v EXCEPT !.emitted = Append(@, ViewNext(WithDisplayUrl(fetched)))]
    ELSE LET sliced == Slice(fetched, 0, SliceLimit)
             result == clusterPhotos(sliced).returned
         IN [emitted |->
               Append(v.emitted,
                      ViewNext([k \in 1..Len(result) |->
                                  [result[k] EXCEPT
                                     !.photos = WithDisplayUrl(@)]])),
             clusterCalls |-> v.clusterCalls + 1]

ViewOnComplete(v) == [v EXCEPT !.emitted = Append(@, ViewComplete)]

\* a pipe without catchError: the error reaches the template subscriber
ViewOnError_Rethrow(component, v, error) ==
  [v EXCEPT !.emitted = Append(@, ViewError(error))]

\* catchError(() => of([])): the map stages are skipped, [] is emitted and
\* the stream completes
ViewOnError(component, v, error) ==
  [v EXCEPT !.emitted = @ \o <<ViewNext(<<>>), ViewComplete>>]

\* the fetch answers with a body
ViewSucceed(c, fetched) ==
  /\ SucceedStep(c)
  /\ view' = [view EXCEPT
                ![c] = ViewOnComplete(ViewOnNext(Component(c), @, fetched))]
  /\ UNCHANGED script

\* an attempt fails: retried inside the service, or handed on as the
\* terminal error
ViewFail(c, error) ==
  /\ FailStep(c, error)
  /\ view' = IF Project(op[c], error, index[c]).kind = "throw"
               THEN [view EXCEPT
                       ![c] = ViewOnError(Component(c), @, handleError(error))]
               ELSE view
  /\ UNCHANGED script

NextView ==
  \E c \in {1, 2} :
    \/ Subscribe(c, "getPhotos")
    \/ \E fetched \in Fetched : ViewSucceed(c, fetched)
    \/ \E error \in ConcErrors : ViewFail(c, error)
    \/ TimerFire(c)
    \/ Unsubscribe(c)

SpecView == Init /\ [][NextView]_vars

\* C26: when getPhotos fails terminally the component's stream emits an
\* empty list and completes; no error notification ever reaches the
\* template subscriber, and clusterPhotos is not called on a failed fetch.
C26_GracefulDegradation ==
  \A c \in {1, 2} :
    /\ \A i \in 1..Len(view[c].emitted) : view[c].emitted[i].type # "error"
    /\ IsError(c) =>
         /\ view[c].emitted = <<ViewNext(<<>>), ViewComplete>>
         /\ view[c].clusterCalls = 0
    /\ view[c].clusterCalls > 0 => (c = 2 /\ IsSuccess(c))

C26_Witness ==
  /\ IsError(1)
  /\ IsError(2)
  /\ attempts[2] = MAX_RETRIES + 1
  /\ view[1].emitted = <<ViewNext(<<>>), ViewComplete>>
  /\ view[2].emitted = <<ViewNext(<<>>), ViewComplete>>
  /\ view[2].clusterCalls = 0

\* ---------------------------------------------------------------------
\* PerformanceComponent and prime.worker
\* ---------------------------------------------------------------------
MaxRuns == 4
\* the sieve runs up to SieveMax here (350_000 in the worker)
SieveMax == 30
\* end - start of performance.now() in the worker, in ms
ExecutionTimes == {20, 1000}

\* sieveOfEratosthenes(max): the numbers of 2..max left unmarked, where j is
\* marked as a multiple of some i with i * i <= j
sieveOfEratosthenes(max) ==
  Cardinality({j \in 2..max :
                 ~\E i \in 2..j : i * i <= j /\ j % i = 0})

\* calculateCPUUtilization, in thousandths of a percent
calculateCPUUtilization(executionTime) ==
  LET theoreticalMinTime == 50
      baseUtilization == 65
      scaled == (baseUtilization * MathLog((executionTime + 1) * Milli) * Milli)
                  \div MathLog((theoreticalMinTime + 1) * Milli)
  IN Min(scaled, 100 * Milli)

\* the component after its constructor and ngOnInit; inbox holds the
\* messages posted to the worker and not yet handled, outbox the events the
\* worker has raised and the component has not yet received
PerformanceComponent(isBrowser) ==
  [isBrowser |-> isBrowser,
   worker |-> isBrowser,
   isRunning |-> FALSE,
   results |-> <<>>,
   latestResult |-> <<>>,
   inbox |-> <<>>,
   outbox |-> <<>>,
   posted |-> 0,
   now |-> 0]

\* a runBenchmark that posts whether or not a benchmark is running
runBenchmark_Unguarded(p) ==
  IF ~p.worker THEN p
  ELSE [p EXCEPT !.isRunning = TRUE,
                 !.inbox = Append(@, "start"),
                 !.posted = @ + 1]

runBenchmark(p) ==
  IF ~p.worker \/ p.isRunning THEN p
  ELSE [p EXCEPT !.isRunning = TRUE,
                 !.inbox = Append(@, "start"),
                 !.posted = @ + 1]

clearHistory(p) == [p EXCEPT !.results = <<>>, !.latestResult = <<>>]

\* worker.onmessage
onmessage(p, data) ==
  LET cpuUtilization == calculateCPUUtilization(data.executionTime)
      result == [primesFound |-> data.primesFound,
                 executionTime |-> data.executionTime,
                 cpuUtilization |-> cpuUtilization,
                 timestamp |-> p.now]
  IN [p EXCEPT !.results = <<result>> \o @,
               !.latestResult = <<result>>,
               !.isRunning = FALSE,
               !.now = @ + 1]

\* worker.onerror
onerror(p) == [p EXCEPT !.isRunning = FALSE]

perfFrame == UNCHANGED <<retryVars, clusterVars, view, debug, grid>>

InitPerf ==
  /\ op = [c \in Calls |-> "getPhotos"]
  /\ pc = [c \in Calls |-> "idle"]
  /\ request = [c \in Calls |-> FALSE]
  /\ timer = [c \in Calls |-> <<>>]
  /\ index = [c \in Calls |-> 0]
  /\ attempts = [c \in Calls |-> 0]
  /\ lastError = [c \in Calls |-> <<>>]
  /\ hinted = [c \in Calls |-> FALSE]
  /\ waits = [c \in Calls |-> <<>>]
  /\ delivered = [c \in Calls |-> <<>>]
  /\ script = <<>>
  /\ photos = <<>>
  /\ clusters = <<>>
  /\ view = [c \in Calls |-> NoView]
  /\ debug = NoDebug
  /\ grid = NoGrid
  /\ \E isBrowser \in BOOLEAN : perf = PerformanceComponent(isBrowser)

\* (click)="runBenchmark()"
ClickRunBenchmark ==
  /\ perf.posted < MaxRuns
  /\ perf' = runBenchmark(perf)
  /\ perfFrame

\* (click)="clearHistory()"
ClickClearHistory ==
  /\ perf' = clearHistory(perf)
  /\ perfFrame

\* the worker's message listener handles 'start' and posts its result
WorkerMessage(executionTime) ==
  /\ perf.inbox # <<>>
  /\ LET data == Head(perf.inbox)
         reply == [kind |-> "message",
                   data |-> [primesFound |-> sieveOfEratosthenes(SieveMax),
                             executionTime |-> executionTime]]
     IN perf' = [perf EXCEPT
                   !.inbox = Tail(@),
                   !.outbox = IF data = "start" THEN Append(@, reply) ELSE @]
  /\ perfFrame

\* the listener throws while handling a message: an error event is raised
WorkerThrows ==
  /\ perf.inbox # <<>>
  /\ perf' = [perf EXCEPT !.inbox = Tail(@),
                          !.outbox = Append(@, [kind |-> "error", data |-> <<>>])]
  /\ perfFrame

\* the component receives the next event of its worker
WorkerEvent ==
  /\ perf.outbox # <<>>
  /\ LET event == Head(perf.outbox)
         received == [perf EXCEPT !.outbox = Tail(@)]
     IN perf' = IF event.kind = "message"
                  THEN onmessage(received, event.data)
                  ELSE onerror(received)
  /\ perfFrame

NextPerf ==
  \/ ClickRunBenchmark
  \/ ClickClearHistory
  \/ \E executionTime \in ExecutionTimes : WorkerMessage(executionTime)
  \/ WorkerThrows
  \/ WorkerEvent

SpecPerf == InitPerf /\ [][NextPerf]_vars

\* benchmarks posted to the worker whose result or error the component has
\* not received yet
InFlight == Len(perf.inbox) + Len(perf.outbox)
\* the step hands the component the event at the head of outbox
Receives(kind) ==
  /\ perf.outbox # <<>>
  /\ Head(perf.outbox).kind = kind
  /\ perf'.outbox = Tail(perf.outbox)

\* C30: at most one benchmark is in flight; 'start' is posted only when
\* isRunning is false and a worker exists, and isRunning becomes true with
\* it; runBenchmark while isRunning is true or without a worker changes
\* nothing; isRunning returns to false only when a worker result or worker
\* error is received; each worker result puts exactly one entry at the head
\* of results, and results gains entries in no other way.
C30_OneBenchmarkInFlight ==
  /\ [](/\ InFlight <= 1
        /\ perf.isRunning <=> InFlight = 1
        /\ (perf.isRunning \/ ~perf.worker) => runBenchmark(perf) = perf)
  /\ [][/\ Len(perf'.inbox) > Len(perf.inbox) =>
             /\ ~perf.isRunning
             /\ perf.worker
             /\ perf'.isRunning
             /\ perf'.inbox = <<"start">>
        /\ (perf.isRunning /\ ~perf'.isRunning) =>
             (Receives("message") \/ Receives("error"))
        /\ Receives("message") =>
             /\ Len(perf'.results) = Len(perf.results) + 1
             /\ Tail(perf'.results) = perf.results
             /\ Head(perf'.results).primesFound
                  = Head(perf.outbox).data.primesFound
             /\ Head(perf'.results).executionTime
                  = Head(perf.outbox).data.executionTime
             /\ perf'.latestResult = <<Head(perf'.results)>>
        /\ Len(perf'.results) > Len(perf.results) => Receives("message")]_vars

C30_Witness ==
  /\ Len(perf.results) = 2
  /\ perf.results[1].timestamp = 2
  /\ perf.results[2].timestamp = 1
  /\ perf.results[1].executionTime = 1000
  /\ perf.results[1].cpuUtilization = 100 * Milli
  /\ perf.results[2].cpuUtilization < 100 * Milli
  /\ perf.isRunning
  /\ perf.outbox # <<>>

====
